---------------------------- MODULE Spec2Model ----------------------------
(***************************************************************************)
(* Model of the tnnl coordination server                                   *)
(* (src/backend/coordination-server/src): the tunnel registry              *)
(* (tunnel.rs), the per-connection protocol dispatcher (main.rs), the      *)
(* credential check (auth.rs), the persistence calls (db.rs) and the       *)
(* reverse-proxy provisioning (nginx.rs).                                  *)
(*                                                                         *)
(* Strings that the code inspects character by character (subdomains) are  *)
(* sequences of one-character strings.  Every lock section of the code is  *)
(* one atomic step; a task can be preempted between two lock sections and  *)
(* around every external call.                                             *)
(***************************************************************************)
EXTENDS Integers, Sequences, FiniteSets, TLC

(***************************************************************************)
(* Bounds of the model.                                                    *)
(***************************************************************************)
\* frames a connection sends before it closes (Spec), and calls an API
\* task makes (SpecTM)
MaxFrames == 3
\* frames each connection sends when two connections run (Spec)
FramesEach == 2
MaxCalls == 2
\* longest subdomain enumerated char by char in SpecCustom
ShortLen == 3
\* frames the connection sends in SpecProto
ProtoFrames == 2
\* frames each connection sends in SpecLock
LockFrames == 2

(***************************************************************************)
(* Program constants.                                                      *)
(***************************************************************************)
PortBase == 10000
U16Modulus == 65536
MinSubdomainLen == 3
MaxSubdomainLen == 63
RandNumLow == 1000
RandNumHigh == 9999

Tasks == {1, 2}
Users == {"u1", "u2"}

\* Option<T>: None is the empty sequence, Some(x) the one-element sequence
None == << >>
Some(x) == << x >>
IsSome(o) == o # None
Unwrap(o) == o[1]

PasswordOpts == {None, Some("pw")}

(***************************************************************************)
(* tunnel.rs: subdomain syntax and the random generator                    *)
(***************************************************************************)
LowerChars ==
    {"a","b","c","d","e","f","g","h","i","j","k","l","m",
     "n","o","p","q","r","s","t","u","v","w","x","y","z"}
DigitChars == {"0","1","2","3","4","5","6","7","8","9"}
Hyphen == "-"

Adjectives ==
    << <<"h","a","p","p","y">>,
       <<"f","u","z","z","y">>,
       <<"c","l","e","v","e","r">>,
       <<"s","w","i","f","t">>,
       <<"b","r","i","g","h","t">>,
       <<"c","a","l","m">>,
       <<"b","r","a","v","e">>,
       <<"w","i","l","d">>,
       <<"c","o","o","l">>,
       <<"w","a","r","m">> >>
Nouns ==
    << <<"c","a","t">>,
       <<"d","o","g">>,
       <<"b","i","r","d">>,
       <<"f","i","s","h">>,
       <<"b","e","a","r">>,
       <<"w","o","l","f">>,
       <<"f","o","x">>,
       <<"d","e","e","r">>,
       <<"o","w","l">>,
       <<"l","i","o","n">> >>

\* a char's width in UTF-8: str::len() counts bytes, chars() yields chars
EAcute == "U+00E9"
Utf8Len(ch) == IF ch = EAcute THEN 2 ELSE 1

RECURSIVE StrLen(_)
StrLen(s) == IF s = << >> THEN 0 ELSE Utf8Len(Head(s)) + StrLen(Tail(s))

is_valid_subdomain_lax(s) ==
    IF StrLen(s) < MinSubdomainLen \/ StrLen(s) > MaxSubdomainLen
    THEN FALSE
    ELSE /\ \A i \in 1..Len(s) :
              s[i] \in LowerChars \/ s[i] \in DigitChars \/ s[i] = Hyphen
         /\ s[1] # Hyphen

is_valid_subdomain(s) ==
    IF StrLen(s) < MinSubdomainLen \/ StrLen(s) > MaxSubdomainLen
    THEN FALSE
    ELSE /\ \A i \in 1..Len(s) :
              s[i] \in LowerChars \/ s[i] \in DigitChars \/ s[i] = Hyphen
         /\ s[1] # Hyphen
         /\ s[Len(s)] # Hyphen

DigitChar(d) ==
    CASE d = 0 -> "0" [] d = 1 -> "1" [] d = 2 -> "2" [] d = 3 -> "3"
      [] d = 4 -> "4" [] d = 5 -> "5" [] d = 6 -> "6" [] d = 7 -> "7"
      [] d = 8 -> "8" [] d = 9 -> "9"

\* format!("{}", num) for an unsigned integer
RECURSIVE FormatNum(_)
FormatNum(n) ==
    IF n < 10 THEN << DigitChar(n) >>
    ELSE Append(FormatNum(n \div 10), DigitChar(n % 10))

\* rng.gen_range(1000..9999): the upper end is excluded
GenRange == RandNumLow .. (RandNumHigh - 1)

\* format!("{}-{}-{}", adj, noun, num) for the drawn indices and number
generate_random_subdomain(a, n, num) ==
    Adjectives[a] \o << Hyphen >> \o Nouns[n] \o << Hyphen >> \o FormatNum(num)

\* the draws of the generator the model explores
RandDraws == { <<1, 1, num>> : num \in { 1000, 1001 } }
RandomPool == { generate_random_subdomain(d[1], d[2], d[3]) : d \in RandDraws }

\* subdomains a caller of create_custom_tunnel passes in the model
CustomInputs ==
    { <<"a","b","c">>, <<"a","-","1">>,
      <<"a","b">>, <<"-","a","b">>, <<"a","b","-">>, <<"A","B","C">>,
      <<"a","_","b">> }

SubUniverse == RandomPool \cup CustomInputs

\* SpecCustom: every string of at most ShortLen chars over SyntaxChars, and
\* strings around the upper length limit
SyntaxChars == { "a", "z", "0", "9", "-", "A", "_", ".", EAcute }
ShortInputs == UNION { [1..n -> SyntaxChars] : n \in 0..ShortLen }
RECURSIVE Copies(_, _)
Copies(ch, n) == IF n = 0 THEN << >> ELSE << ch >> \o Copies(ch, n - 1)
LongInputs ==
    { Copies("a", n) : n \in (MaxSubdomainLen - 1)..(MaxSubdomainLen + 1) }
      \cup { Copies("a", MaxSubdomainLen - 2) \o << "-", "0" >>,
             Copies("a", MaxSubdomainLen - 1) \o << "-" >>,
             << "-" >> \o Copies("a", MaxSubdomainLen - 1),
             Copies("a", MaxSubdomainLen - 1) \o << "A" >>,
             Copies(EAcute, MaxSubdomainLen \div 2) }
NamedInputs ==
    { << "m","y","-","c","u","s","t","o","m","-","t","u","n","n","e","l" >>,
      << "I","N","V","A","L","I","D" >>,
      << "t","e","s","t","_","s","u","b","d","o","m","a","i","n" >> }
SyntaxInputs == ShortInputs \cup LongInputs \cup NamedInputs

(***************************************************************************)
(* State                                                                   *)
(***************************************************************************)
VARIABLES
    tunnels,     \* TunnelManager.tunnels: subdomain -> Tunnel
    ports,       \* TunnelManager.ports: port -> tunnel id
    next_port,   \* TunnelManager.next_port (u16)
    next_id,     \* Uuid::new_v4(): the ids handed out so far are 1..next_id-1
    pc,          \* position of every task
    loc,         \* locals of the call a task is in
    result,      \* what the last TunnelManager call of an API task returned
    ncalls,      \* calls / frames a task has issued
    clients,     \* AppState.clients: client id -> Client (user_id, tunnels)
    outbox,      \* frames enqueued on each client's sender, oldest first
    dbUsers,     \* rows of table users (ids)
    dbTunnels,   \* rows of table tunnels
    dbKeys,      \* users.ssh_public_key: user id -> key
    authKeys,    \* lines of the authorized_keys file
    fs,          \* per subdomain: the files of its proxy endpoint
    devMode,     \* whether the environment sets DEV_MODE=true
    frame,       \* the text frame a connection read last (type and field)
    ngCall,      \* SpecNginx: one call of a provisioning function;
                 \* SpecCustom: the subdomain the caller passes;
                 \* elsewhere: the last create_tunnel_config or
                 \* remove_tunnel_config call, if any
    sessLock     \* the RwLock around the session table: guards and waiters

tmVars == << tunnels, ports, next_port, next_id >>
dbVars == << dbUsers, dbTunnels, dbKeys, authKeys >>
srvVars == << clients, outbox, dbUsers, dbTunnels, dbKeys, authKeys, fs, devMode,
              frame, ngCall, sessLock >>
vars == << tunnels, ports, next_port, next_id, pc, loc, result, ncalls,
           clients, outbox, dbUsers, dbTunnels, dbKeys, authKeys, fs, devMode,
           frame, ngCall, sessLock >>

NoLoc == [ sub |-> None, user |-> None, custom |-> FALSE, pw |-> None,
           tunnel |-> None, ret |-> "", todo |-> << >> ]
NoResult == [ kind |-> "none", tunnel |-> None ]

\* HashMap::insert: the entry is added, or replaces the one under the key
MapInsert(m, k, v) == [ x \in DOMAIN m \cup {k} |-> IF x = k THEN v ELSE m[x] ]
\* HashMap::remove
MapRemove(m, k) == [ x \in DOMAIN m \ {k} |-> m[x] ]
EmptyMap == [ x \in {} |-> None ]

\* RwLock::new: no guard is held and nobody waits
NoGuards == [ readers |-> [c \in Tasks |-> 0], writer |-> 0, queue |-> << >> ]
NoFrame == [ type |-> "none", field |-> None ]
NoFiles == [ enabled |-> FALSE, config |-> "none", html |-> FALSE,
             htpasswd |-> FALSE, cert |-> FALSE ]

(***************************************************************************)
(* tunnel.rs: TunnelManager                                                *)
(***************************************************************************)
\* AllocPort that increments first and hands out the incremented value
AllocPortAfter(c) ==
    /\ tunnels' = tunnels
    /\ ports' = ports
    /\ next_port' = (next_port + 1) % U16Modulus
    /\ next_id' = next_id + 1
    /\ loc' = [loc EXCEPT ![c].tunnel =
                 Some([ id |-> next_id, subdomain |-> Unwrap(loc[c].sub),
                        user_id |-> Unwrap(loc[c].user),
                        is_custom |-> loc[c].custom,
                        port |-> (next_port + 1) % U16Modulus,
                        password |-> loc[c].pw ])]

\* AllocPort with the increment of next_port lost
AllocPortStale(c) ==
    /\ tunnels' = tunnels
    /\ ports' = ports
    /\ next_port' = next_port
    /\ next_id' = next_id + 1
    /\ loc' = [loc EXCEPT ![c].tunnel =
                 Some([ id |-> next_id, subdomain |-> Unwrap(loc[c].sub),
                        user_id |-> Unwrap(loc[c].user),
                        is_custom |-> loc[c].custom,
                        port |-> next_port, password |-> loc[c].pw ])]

\* create_tunnel, first lock section: read next_port and increment it
\* (u16 arithmetic), then build the Tunnel with a fresh id
AllocPort(c) ==
    /\ tunnels' = tunnels
    /\ ports' = ports
    /\ next_port' = (next_port + 1) % U16Modulus
    /\ next_id' = next_id + 1
    /\ loc' = [loc EXCEPT ![c].tunnel =
                 Some([ id |-> next_id, subdomain |-> Unwrap(loc[c].sub),
                        user_id |-> Unwrap(loc[c].user),
                        is_custom |-> loc[c].custom,
                        port |-> next_port, password |-> loc[c].pw ])]

\* `*next_port += 1` on the largest u16: a build with overflow checks (the
\* dev profile) panics there and the task ends, a build without them (the
\* release profile) wraps to 0
Overflows == next_port = U16Modulus - 1

CtAllocPort(c) ==
    /\ pc[c] = "ct_port"
    /\ \/ /\ AllocPort(c)
          /\ pc' = [pc EXCEPT ![c] = "ct_ins_tunnel"]
       \/ /\ Overflows
          /\ pc' = [pc EXCEPT ![c] = "panicked"]
          /\ UNCHANGED << tmVars, loc >>
    /\ UNCHANGED << result, ncalls, srvVars >>

\* create_tunnel, second lock section: tunnels.insert(subdomain, tunnel)
InsertTunnel(t) ==
    tunnels' = MapInsert(tunnels, t.subdomain, t)

CtInsTunnel(c) ==
    /\ pc[c] = "ct_ins_tunnel"
    /\ InsertTunnel(Unwrap(loc[c].tunnel))
    /\ pc' = [pc EXCEPT ![c] = "ct_ins_port"]
    /\ UNCHANGED << ports, next_port, next_id, loc, result, ncalls, srvVars >>

\* create_tunnel, third lock section: ports.insert(port, tunnel.id); Ok(tunnel)
InsertPort(t) ==
    ports' = MapInsert(ports, t.port, t.id)

\* remove_tunnel: one section under the tunnels write lock
RemoveOk(sub) == sub \in DOMAIN tunnels
\* remove_tunnel that finds the entry and leaves it in place
remove_tunnel_kept(sub) ==
    /\ tunnels' = tunnels
    /\ ports' = ports
\* remove_tunnel that forgets the port map
remove_tunnel_port_kept(sub) ==
    IF sub \in DOMAIN tunnels
    THEN /\ tunnels' = MapRemove(tunnels, sub)
         /\ ports' = ports
    ELSE /\ tunnels' = tunnels
         /\ ports' = ports
remove_tunnel(sub) ==
    IF sub \in DOMAIN tunnels
    THEN /\ tunnels' = MapRemove(tunnels, sub)
         /\ ports' = MapRemove(ports, tunnels[sub].port)
    ELSE /\ tunnels' = tunnels
         /\ ports' = ports

\* get_tunnel
get_tunnel(sub) == IF sub \in DOMAIN tunnels THEN Some(tunnels[sub]) ELSE None

(***************************************************************************)
(* Tasks that call the TunnelManager directly, as the tests of tunnel.rs   *)
(* do (create_custom_tunnel has no caller in main.rs).                     *)
(***************************************************************************)
\* the existence check of create_custom_tunnel, under the read lock
CustomTakenNever(sub) == FALSE

CustomTaken(sub) == sub \in DOMAIN tunnels

ApiCreateCustomEager(c, user, sub, pw) ==
    /\ pc[c] = "api"
    /\ ncalls[c] < MaxCalls
    /\ ncalls' = [ncalls EXCEPT ![c] = @ + 1]
    /\ IF ~ is_valid_subdomain(sub)
       THEN /\ result' = [result EXCEPT ![c] =
                            [ kind |-> "Invalid subdomain format", tunnel |-> None ]]
            /\ UNCHANGED << pc, loc, next_port >>
       ELSE IF CustomTaken(sub)
       THEN /\ result' = [result EXCEPT ![c] =
                            [ kind |-> "Subdomain already in use", tunnel |-> None ]]
            /\ next_port' = (next_port + 1) % U16Modulus
            /\ UNCHANGED << pc, loc >>
       ELSE /\ result' = [result EXCEPT ![c] = NoResult]
            /\ pc' = [pc EXCEPT ![c] = "ct_port"]
            /\ loc' = [loc EXCEPT ![c] =
                         [ sub |-> Some(sub), user |-> Some(user), custom |-> TRUE,
                           pw |-> pw, tunnel |-> None, ret |-> "api", todo |-> << >> ]]
            /\ UNCHANGED next_port
    /\ UNCHANGED << tunnels, ports, next_id, srvVars >>

ApiCreateCustom(c, user, sub, pw) ==
    /\ pc[c] = "api"
    /\ ncalls[c] < MaxCalls
    /\ ncalls' = [ncalls EXCEPT ![c] = @ + 1]
    /\ IF ~ is_valid_subdomain(sub)
       THEN /\ result' = [result EXCEPT ![c] =
                            [ kind |-> "Invalid subdomain format", tunnel |-> None ]]
            /\ UNCHANGED << pc, loc >>
       ELSE IF CustomTaken(sub)
       THEN /\ result' = [result EXCEPT ![c] =
                            [ kind |-> "Subdomain already in use", tunnel |-> None ]]
            /\ UNCHANGED << pc, loc >>
       ELSE /\ result' = [result EXCEPT ![c] = NoResult]
            /\ pc' = [pc EXCEPT ![c] = "ct_port"]
            /\ loc' = [loc EXCEPT ![c] =
                         [ sub |-> Some(sub), user |-> Some(user), custom |-> TRUE,
                           pw |-> pw, tunnel |-> None, ret |-> "api", todo |-> << >> ]]
    /\ UNCHANGED << tmVars, srvVars >>

ApiCreateRandom(c, user, pw, d) ==
    /\ pc[c] = "api"
    /\ ncalls[c] < MaxCalls
    /\ ncalls' = [ncalls EXCEPT ![c] = @ + 1]
    /\ result' = [result EXCEPT ![c] = NoResult]
    /\ pc' = [pc EXCEPT ![c] = "ct_port"]
    /\ loc' = [loc EXCEPT ![c] =
                 [ sub |-> Some(generate_random_subdomain(d[1], d[2], d[3])),
                   user |-> Some(user), custom |-> FALSE,
                   pw |-> pw, tunnel |-> None, ret |-> "api", todo |-> << >> ]]
    /\ UNCHANGED << tmVars, srvVars >>

ApiRemove(c, sub) ==
    /\ pc[c] = "api"
    /\ ncalls[c] < MaxCalls
    /\ ncalls' = [ncalls EXCEPT ![c] = @ + 1]
    /\ remove_tunnel(sub)
    /\ result' = [result EXCEPT ![c] =
                    [ kind |-> IF RemoveOk(sub) THEN "Ok" ELSE "Tunnel not found",
                      tunnel |-> None ]]
    /\ UNCHANGED << next_port, next_id, pc, loc, srvVars >>

ApiGet(c, sub) ==
    /\ pc[c] = "api"
    /\ ncalls[c] < MaxCalls
    /\ ncalls' = [ncalls EXCEPT ![c] = @ + 1]
    /\ result' = [result EXCEPT ![c] = [ kind |-> "Get", tunnel |-> get_tunnel(sub) ]]
    /\ UNCHANGED << tmVars, pc, loc, srvVars >>

\* the third lock section, then create_tunnel returns Ok(tunnel) to its
\* caller: an API task, or handle_message (which goes on to persist it)
CtInsPort(c) ==
    /\ pc[c] = "ct_ins_port"
    /\ InsertPort(Unwrap(loc[c].tunnel))
    /\ pc' = [pc EXCEPT ![c] = loc[c].ret]
    /\ IF loc[c].ret = "api"
       THEN /\ result' = [result EXCEPT ![c] =
                            [ kind |-> "Ok", tunnel |-> loc[c].tunnel ]]
            /\ loc' = [loc EXCEPT ![c] = NoLoc]
       ELSE UNCHANGED << result, loc >>
    /\ UNCHANGED << tunnels, next_port, next_id, ncalls, srvVars >>

UserOf(c) == IF c = 1 THEN "u1" ELSE "u2"

\* empty maps, API tasks that have made no call, no server state
InitApiTasks ==
    /\ tunnels = EmptyMap
    /\ ports = EmptyMap
    /\ pc = [c \in Tasks |-> "api"]
    /\ loc = [c \in Tasks |-> NoLoc]
    /\ result = [c \in Tasks |-> NoResult]
    /\ ncalls = [c \in Tasks |-> 0]
    /\ clients = EmptyMap
    /\ outbox = [c \in Tasks |-> << >>]
    /\ dbUsers = {}
    /\ dbTunnels = {}
    /\ dbKeys = EmptyMap
    /\ authKeys = << >>
    /\ fs = [s \in RandomPool |-> NoFiles]
    /\ devMode = FALSE
    /\ frame = [c \in Tasks |-> NoFrame]
    /\ sessLock = NoGuards

InitManager ==
    /\ next_port = PortBase
    /\ next_id = 1
    /\ InitApiTasks

InitTM == InitManager /\ ngCall = None

NextTM ==
    \E c \in Tasks :
        \/ \E sub \in CustomInputs : ApiCreateCustom(c, UserOf(c), sub, None)
        \/ \E d \in RandDraws : ApiCreateRandom(c, UserOf(c), None, d)
        \/ \E sub \in SubUniverse : ApiRemove(c, sub)
        \/ CtAllocPort(c)
        \/ CtInsTunnel(c)
        \/ CtInsPort(c)

SpecTM == InitTM /\ [][NextTM]_vars

\* SpecWrap: the TunnelManager after WrapStart - PortBase tunnels were
\* created and removed one after the other: the maps are empty again and
\* the counter is two below the largest u16
WrapStart == U16Modulus - 2

InitWrap ==
    /\ next_port = WrapStart
    /\ next_id = WrapStart - PortBase + 1
    /\ InitApiTasks
    /\ ngCall = None

SpecWrap == InitWrap /\ [][NextTM]_vars

\* SpecCustom: both tasks call create_custom_tunnel with one drawn subdomain,
\* task 1 with a password and task 2 without
CustomPassword(c) == IF c = 1 THEN Some("pw") ELSE None

InitCustom ==
    /\ InitManager
    /\ ngCall \in { [ op |-> "create_custom_tunnel", sub |-> s ] : s \in SyntaxInputs }

NextCustom ==
    \E c \in Tasks :
        \/ ApiCreateCustom(c, UserOf(c), ngCall.sub, CustomPassword(c))
        \/ CtAllocPort(c)
        \/ CtInsTunnel(c)
        \/ CtInsPort(c)

SpecCustom == InitCustom /\ [][NextCustom]_vars

\* SpecRemove: as SpecCustom, and both tasks also call remove_tunnel with
\* the drawn subdomain
NextRemove ==
    \/ NextCustom
    \/ \E c \in Tasks : ApiRemove(c, ngCall.sub)

SpecRemove == InitCustom /\ [][NextRemove]_vars


(***************************************************************************)
(* nginx.rs: provisioning.  An endpoint is the files of one subdomain:     *)
(* the sites-enabled symlink, the sites-available config (HTTP-only or     *)
(* final), the landing page, the htpasswd file and the certificate.  What  *)
(* the external commands do is an input (an outcome record); the two       *)
(* functions are computed step by step as the code runs them, and return   *)
(* the files left behind, Ok/Err and the commands issued.                  *)
(***************************************************************************)
BootSteps == { "write_http", "enable", "reload1", "cert", "write_https",
               "html", "htpasswd", "reload2" }
\* commands whose exit status the code does not look at (tee, ln), and the
\* landing page, skipped with Ok when the template is missing
SilentSteps == { "write_http", "enable", "write_https", "html" }
ReloadModes == { "validate", "reload" }

\* fail: the step whose command fails when it is invoked ("none": no
\* command fails); mode: whether a failing reload step fails in nginx -t or
\* in systemctl reload; silent: the steps whose command does nothing and
\* is not noticed
BootOutcomes ==
    { o \in [ fail : BootSteps \cup {"none"}, mode : ReloadModes,
              silent : SUBSET SilentSteps ] :
        /\ (o.fail \notin {"reload1", "reload2"} => o.mode = "validate")
        /\ o.fail \notin o.silent }

\* the Display text of the errors; what a command wrote to stderr is left open
IoError == "<io error>"
TestFailed == "Nginx configuration test failed: <stderr>"
ReloadFailed == "Failed to reload Nginx: <stderr>"
CertFailed == "Failed to obtain SSL certificate for <domain>: <stderr>"
HtpasswdFailed == "Failed to create htpasswd file: <stderr>"

Run0(f) == [ fs |-> f, status |-> "run", err |-> "", trace |-> << >> ]

\* reload_nginx: nginx -t, and only when it succeeds systemctl reload nginx
reload_nginx_unchecked(s, failing, mode) ==
    IF s.status # "run" THEN s
    ELSE IF failing /\ mode = "validate"
    THEN [ s EXCEPT !.status = "err", !.err = TestFailed,
                    !.trace = @ \o << "nginx -t", "systemctl reload" >> ]
    ELSE IF failing
    THEN [ s EXCEPT !.status = "err", !.err = ReloadFailed,
                    !.trace = @ \o << "nginx -t", "systemctl reload" >> ]
    ELSE [ s EXCEPT !.trace = @ \o << "nginx -t", "systemctl reload" >> ]

reload_nginx(s, failing, mode) ==
    IF s.status # "run" THEN s
    ELSE IF failing /\ mode = "validate"
    THEN [ s EXCEPT !.status = "err", !.err = TestFailed,
                    !.trace = Append(@, "nginx -t") ]
    ELSE IF failing
    THEN [ s EXCEPT !.status = "err", !.err = ReloadFailed,
                    !.trace = @ \o << "nginx -t", "systemctl reload" >> ]
    ELSE [ s EXCEPT !.trace = @ \o << "nginx -t", "systemctl reload" >> ]

\* sudo tee <config>: an error of spawn/write/wait is returned; the exit
\* status is not checked
WriteConfig(s, step, kind, o) ==
    IF s.status # "run" THEN s
    ELSE IF o.fail = step
    THEN [ s EXCEPT !.status = "err", !.err = IoError, !.trace = Append(@, step) ]
    ELSE IF step \in o.silent
    THEN [ s EXCEPT !.trace = Append(@, step) ]
    ELSE [ s EXCEPT !.fs.config = kind, !.trace = Append(@, step) ]

\* sudo ln -sf: the exit status is not checked
EnableSite(s, o) ==
    IF s.status # "run" THEN s
    ELSE IF o.fail = "enable"
    THEN [ s EXCEPT !.status = "err", !.err = IoError, !.trace = Append(@, "ln -sf") ]
    ELSE IF "enable" \in o.silent
    THEN [ s EXCEPT !.trace = Append(@, "ln -sf") ]
    ELSE [ s EXCEPT !.fs.enabled = TRUE, !.trace = Append(@, "ln -sf") ]

\* request_ssl_certificate: certbot only when no certificate is on disk
\* a certificate step that does not look at the disk first
request_ssl_certificate_always(s, o) ==
    IF s.status # "run" THEN s
    ELSE IF o.fail = "cert"
    THEN [ s EXCEPT !.status = "err", !.err = CertFailed,
                    !.trace = Append(@, "certbot certonly") ]
    ELSE [ s EXCEPT !.fs.cert = TRUE, !.trace = Append(@, "certbot certonly") ]

request_ssl_certificate(s, o) ==
    IF s.status # "run" THEN s
    ELSE IF s.fs.cert THEN s
    ELSE IF o.fail = "cert"
    THEN [ s EXCEPT !.status = "err", !.err = CertFailed,
                    !.trace = Append(@, "certbot certonly") ]
    ELSE [ s EXCEPT !.fs.cert = TRUE, !.trace = Append(@, "certbot certonly") ]

\* create_client_html: Ok without a page when the template is missing
create_client_html(s, o) ==
    IF s.status # "run" THEN s
    ELSE IF o.fail = "html"
    THEN [ s EXCEPT !.status = "err", !.err = IoError, !.trace = Append(@, "write html") ]
    ELSE IF "html" \in o.silent THEN s
    ELSE [ s EXCEPT !.fs.html = TRUE, !.trace = Append(@, "write html") ]

\* create_htpasswd, called only when the tunnel has a password
create_htpasswd(s, pw, o) ==
    IF s.status # "run" \/ pw = None THEN s
    ELSE IF o.fail = "htpasswd"
    THEN [ s EXCEPT !.status = "err", !.err = HtpasswdFailed,
                    !.trace = Append(@, "htpasswd") ]
    ELSE [ s EXCEPT !.fs.htpasswd = TRUE, !.trace = Append(@, "htpasswd") ]

\* a bootstrap that asks for the certificate before the first reload
create_tunnel_config_cert_first(f, pw, o) ==
    LET s1 == WriteConfig(Run0(f), "write_http", "http", o)
        s2 == EnableSite(s1, o)
        s3 == request_ssl_certificate(s2, o)
        s4 == reload_nginx(s3, o.fail = "reload1", o.mode)
        s5 == WriteConfig(s4, "write_https", "https", o)
        s6 == create_client_html(s5, o)
        s7 == create_htpasswd(s6, pw, o)
        s8 == reload_nginx(s7, o.fail = "reload2", o.mode)
    IN  [ fs |-> s8.fs, ok |-> s8.status = "run", err |-> s8.err, trace |-> s8.trace ]

create_tunnel_config(f, pw, o) ==
    LET s1 == WriteConfig(Run0(f), "write_http", "http", o)
        s2 == EnableSite(s1, o)
        s3 == reload_nginx(s2, o.fail = "reload1", o.mode)
        s4 == request_ssl_certificate(s3, o)
        s5 == WriteConfig(s4, "write_https", "https", o)
        s6 == create_client_html(s5, o)
        s7 == create_htpasswd(s6, pw, o)
        s8 == reload_nginx(s7, o.fail = "reload2", o.mode)
    IN  [ fs |-> s8.fs, ok |-> s8.status = "run", err |-> s8.err, trace |-> s8.trace ]

TearSteps == { "rm_enabled", "rm_config", "rm_html", "rm_htpasswd", "reload" }
\* fail: the step that fails when it is attempted; certFail: whether
\* certbot delete fails
TearOutcomes ==
    { o \in [ fail : TearSteps \cup {"none"}, mode : ReloadModes,
              certFail : BOOLEAN ] :
        o.fail # "reload" => o.mode = "validate" }

\* Path::new(p).exists() follows a symlink: the sites-enabled link exists
\* only while the config file it points to does
EnabledExists(f) == f.enabled /\ f.config # "none"

\* one "if exists { remove_file(..).await? }" block
RemoveFile(s, there, step, o, after) ==
    IF s.status # "run" \/ ~ there THEN s
    ELSE IF o.fail = step
    THEN [ s EXCEPT !.status = "err", !.err = IoError, !.trace = Append(@, step) ]
    ELSE [ s EXCEPT !.fs = after, !.trace = Append(@, step) ]

\* delete_ssl_certificate(..).await.ok(): a failure is dropped
delete_ssl_certificate(s, o) ==
    IF s.status # "run" THEN s
    ELSE IF o.certFail
    THEN [ s EXCEPT !.trace = Append(@, "certbot delete") ]
    ELSE [ s EXCEPT !.fs.cert = FALSE, !.trace = Append(@, "certbot delete") ]

remove_tunnel_config(f, o) ==
    LET s1 == RemoveFile(Run0(f), EnabledExists(f), "rm_enabled", o,
                         [f EXCEPT !.enabled = FALSE])
        s2 == RemoveFile(s1, s1.fs.config # "none", "rm_config", o,
                         [s1.fs EXCEPT !.config = "none"])
        s3 == RemoveFile(s2, s2.fs.html, "rm_html", o,
                         [s2.fs EXCEPT !.html = FALSE])
        s4 == RemoveFile(s3, s3.fs.htpasswd, "rm_htpasswd", o,
                         [s3.fs EXCEPT !.htpasswd = FALSE])
        s5 == delete_ssl_certificate(s4, o)
        s6 == reload_nginx(s5, o.fail = "reload", o.mode)
    IN  [ fs |-> s6.fs, ok |-> s6.status = "run", err |-> s6.err, trace |-> s6.trace ]

(***************************************************************************)
(* auth.rs: a credential is what the JWT library's checks see of it        *)
(***************************************************************************)
NotAUuid == "not-a-uuid"
\* the id Uuid::new_v4() makes up in verify_token_insecure
RandomUuid == "u-random"

GoodToken(u) == [ wellformed |-> TRUE, sig |-> TRUE, fresh |-> TRUE,
                  aud |-> TRUE, sub |-> u ]
Tokens ==
    { GoodToken(u) : u \in Users } \cup
    { [GoodToken("u1") EXCEPT !.sig = FALSE],
      [GoodToken("u1") EXCEPT !.fresh = FALSE],
      [GoodToken("u1") EXCEPT !.aud = FALSE],
      [GoodToken("u1") EXCEPT !.sub = NotAUuid],
      [GoodToken("u1") EXCEPT !.wellformed = FALSE] }

\* decode_header, decode with Validation::new(HS256) and the audience
\* "authenticated", then Uuid::parse_str(sub)
verify_supabase_token(tok) ==
    IF tok.wellformed /\ tok.sig /\ tok.fresh /\ tok.aud /\ tok.sub \in Users
    THEN [ ok |-> TRUE, user |-> tok.sub ]
    ELSE [ ok |-> FALSE, user |-> NotAUuid ]

\* decode with signature, exp, nbf and aud validation switched off; a
\* subject that is no UUID is replaced by a new random one
verify_token_insecure(tok) ==
    IF tok.wellformed
    THEN [ ok |-> TRUE, user |-> IF tok.sub \in Users THEN tok.sub ELSE RandomUuid ]
    ELSE [ ok |-> FALSE, user |-> NotAUuid ]

\* main.rs: the verifier the auth handler picks from the DEV_MODE variable
VerifyToken(tok, dev) ==
    IF dev THEN verify_token_insecure(tok) ELSE verify_supabase_token(tok)

(***************************************************************************)
(* ssh_keys.rs                                                             *)
(***************************************************************************)
MinKeyLen == 80
IsWhitespace(ch) == ch \in { " ", "\t", "\n", "\r" }

RECURSIVE TrimStart(_)
TrimStart(s) ==
    IF s = << >> THEN s
    ELSE IF IsWhitespace(Head(s)) THEN TrimStart(Tail(s)) ELSE s
RECURSIVE TrimEnd(_)
TrimEnd(s) ==
    IF s = << >> THEN s
    ELSE IF IsWhitespace(s[Len(s)]) THEN TrimEnd(SubSeq(s, 1, Len(s) - 1)) ELSE s
Trim(s) == TrimEnd(TrimStart(s))

StartsWith(s, pre) == Len(s) >= Len(pre) /\ SubSeq(s, 1, Len(pre)) = pre

\* split_whitespace().count(): the maximal runs of non-whitespace
WordCount(s) ==
    Cardinality({ i \in 1..Len(s) :
                    /\ ~ IsWhitespace(s[i])
                    /\ (i = 1 \/ IsWhitespace(s[i - 1])) })

ValidKeyPrefixes ==
    { <<"s","s","h","-","r","s","a">>,
      <<"s","s","h","-","e","d","2","5","5","1","9">>,
      <<"s","s","h","-","d","s","s">>,
      <<"e","c","d","s","a","-","s","h","a","2","-">> }

validate_ssh_public_key(key) ==
    LET k == Trim(key)
    IN  IF k = << >> THEN "SSH key cannot be empty"
        ELSE IF ~ \E pre \in ValidKeyPrefixes : StartsWith(k, pre)
        THEN "Invalid SSH key format. Must start with ssh-rsa, ssh-ed25519, ssh-dss, or ecdsa-sha2-*"
        ELSE IF WordCount(k) < 2
        THEN "Invalid SSH key format. Must contain at least key type and key data"
        ELSE IF StrLen(k) < MinKeyLen THEN "SSH key appears too short to be valid"
        ELSE "Ok"

Repeat(ch, n) == [ i \in 1..n |-> ch ]
KeyRsa == <<"s","s","h","-","r","s","a">>
\* keys a peer sends in the model: a valid one (80 characters), the same
\* with surrounding blanks, one too short, one of one word, one with a
\* foreign prefix, the empty one, and one of 79 characters that is 80
\* bytes long (str::len() counts bytes)
KeyInputs ==
    { KeyRsa \o << " " >> \o Repeat("A", 72),
      << " " >> \o KeyRsa \o << " " >> \o Repeat("A", 72) \o << "\n" >>,
      KeyRsa \o << " " >> \o Repeat("A", 4),
      KeyRsa \o Repeat("A", 73),
      << "r", "s", "a", " " >> \o Repeat("A", 76),
      KeyRsa \o << " " >> \o Repeat("A", 70) \o << EAcute >>,
      << >> }

(***************************************************************************)
(* main.rs: the connection task.  pc: "closed" (not accepted yet), "idle"  *)
(* (in ws_receiver.next()), the positions inside request_tunnel and the    *)
(* disconnect cleanup, "done".                                             *)
(***************************************************************************)
Frame(ty, msg, b) == [ type |-> ty, message |-> msg, body |-> b ]
ErrorFrame(msg) == Frame("error", msg, None)

\* client.sender.send(..) behind "if let Some(client) = clients.get(&id)"
SendTo(c, msg) ==
    IF c \in DOMAIN clients
    THEN [outbox EXCEPT ![c] = Append(@, msg)]
    ELSE outbox

send_error(c, msg) == SendTo(c, ErrorFrame(msg))

\* the user_id a handler reads from the session table
SessionUser(c) == clients[c].user_id

\* handle_connection up to the inbound loop: the session is inserted
Connect(c) ==
    /\ pc[c] = "closed"
    /\ clients' = MapInsert(clients, c, [ user_id |-> None, tunnels |-> << >> ])
    /\ pc' = [pc EXCEPT ![c] = "idle"]
    /\ UNCHANGED << tmVars, loc, result, ncalls, outbox, dbVars, fs, devMode, frame, ngCall, sessLock >>

InFrame(ty, field) == [ type |-> ty, field |-> field ]

\* frames handed to handlers that run beside the inbound loop
ReceivesSpawned(c, f) ==
    /\ pc[c] \notin { "closed", "done" }
    /\ ncalls' = [ncalls EXCEPT ![c] = @ + 1]
    /\ frame' = [frame EXCEPT ![c] = f]
    /\ UNCHANGED << ngCall, sessLock >>

\* ws_receiver.next() yields a text frame and handle_message is entered
Receives(c, f) ==
    /\ pc[c] = "idle"
    /\ ncalls' = [ncalls EXCEPT ![c] = @ + 1]
    /\ frame' = [frame EXCEPT ![c] = f]
    /\ UNCHANGED << ngCall, sessLock >>

\* the user_id the auth handler leaves in the session
AuthSetUser(old, new) == Some(new)

\* an auth handler that sets user_id before the user is stored
RecvAuthEarly(c, tok, dbok) ==
    /\ Receives(c, InFrame("auth", tok))
    /\ LET v == VerifyToken(Unwrap(tok), devMode)
       IN  IF tok = None
           THEN /\ outbox' = send_error(c, "Missing token")
                /\ UNCHANGED << clients, dbUsers >>
           ELSE IF ~ v.ok
           THEN /\ outbox' = send_error(c, "Invalid token")
                /\ UNCHANGED << clients, dbUsers >>
           ELSE IF ~ dbok
           THEN /\ outbox' = send_error(c, "Database error")
                /\ clients' = [clients EXCEPT ![c].user_id =
                                  AuthSetUser(@, v.user)]
                /\ UNCHANGED dbUsers
           ELSE /\ dbUsers' = dbUsers \cup { v.user }
                /\ clients' = [clients EXCEPT ![c].user_id =
                                  AuthSetUser(@, v.user)]
                /\ outbox' = SendTo(c, Frame("auth_success", "", Some(v.user)))
    /\ UNCHANGED << tmVars, pc, loc, result, dbTunnels, dbKeys, authKeys, fs, devMode >>

\* handle_message, "auth": tok is the token field (None when missing),
\* dbok whether get_or_create_user succeeds
RecvAuth(c, tok, dbok) ==
    /\ Receives(c, InFrame("auth", tok))
    /\ LET v == VerifyToken(Unwrap(tok), devMode)
       IN  IF tok = None
           THEN /\ outbox' = send_error(c, "Missing token")
                /\ UNCHANGED << clients, dbUsers >>
           ELSE IF ~ v.ok
           THEN /\ outbox' = send_error(c, "Invalid token")
                /\ UNCHANGED << clients, dbUsers >>
           ELSE IF ~ dbok
           THEN /\ outbox' = send_error(c, "Database error")
                /\ UNCHANGED << clients, dbUsers >>
           ELSE /\ dbUsers' = dbUsers \cup { v.user }
                /\ clients' = [clients EXCEPT ![c].user_id =
                                  AuthSetUser(@, v.user)]
                /\ outbox' = SendTo(c, Frame("auth_success", "", Some(v.user)))
    /\ UNCHANGED << tmVars, pc, loc, result, dbTunnels, dbKeys, authKeys, fs, devMode >>

\* handle_message, "request_tunnel", up to the call of create_random_tunnel:
\* pw is the password field, d the draw of the random generator
RecvRequestTunnel(c, pw, d) ==
    /\ Receives(c, InFrame("request_tunnel", pw))
    /\ IF SessionUser(c) = None
       THEN /\ outbox' = send_error(c, "Not authenticated")
            /\ UNCHANGED << pc, loc >>
       ELSE /\ pc' = [pc EXCEPT ![c] = "ct_port"]
            /\ loc' = [loc EXCEPT ![c] =
                         [ sub |-> Some(generate_random_subdomain(d[1], d[2], d[3])),
                           user |-> SessionUser(c), custom |-> FALSE, pw |-> pw,
                           tunnel |-> None, ret |-> "rt_db", todo |-> << >> ]]
            /\ UNCHANGED outbox
    /\ UNCHANGED << tmVars, result, clients, dbVars, fs, devMode >>

\* db::create_tunnel_record
DbInsertTunnel(t) == dbTunnels \cup { t }
\* db::delete_tunnel_record: DELETE FROM tunnels WHERE subdomain = $1
DbDeleteTunnel(sub) == { r \in dbTunnels : r.subdomain # sub }

\* the handler replying "Database error" and going on to the proxy all the same
RtDbNoReturn(c, ok) ==
    /\ pc[c] = "rt_db"
    /\ IF ok
       THEN /\ dbTunnels' = DbInsertTunnel(Unwrap(loc[c].tunnel))
            /\ UNCHANGED outbox
       ELSE /\ outbox' = send_error(c, "Database error")
            /\ UNCHANGED dbTunnels
    /\ pc' = [pc EXCEPT ![c] = "rt_nginx"]
    /\ UNCHANGED << tmVars, loc, result, ncalls, clients, dbUsers, dbKeys, authKeys,
                    fs, devMode, frame, ngCall, sessLock >>

\* "Store tunnel in database": on an error the handler replies and returns
RtDb(c, ok) ==
    /\ pc[c] = "rt_db"
    /\ IF ok
       THEN /\ dbTunnels' = DbInsertTunnel(Unwrap(loc[c].tunnel))
            /\ pc' = [pc EXCEPT ![c] = "rt_nginx"]
            /\ UNCHANGED << outbox, loc >>
       ELSE /\ outbox' = send_error(c, "Database error")
            /\ pc' = [pc EXCEPT ![c] = "idle"]
            /\ loc' = [loc EXCEPT ![c] = NoLoc]
            /\ UNCHANGED dbTunnels
    /\ UNCHANGED << tmVars, result, ncalls, clients, dbUsers, dbKeys, authKeys,
                    fs, devMode, frame, ngCall, sessLock >>

\* where the handler goes when create_tunnel_config returned an error
AfterBootstrapError == "rt_undo_registry"

\* "Create Nginx configuration": on an error the handler replies, then
\* cleans up
RtNginx(c, o) ==
    /\ pc[c] = "rt_nginx"
    /\ LET t == Unwrap(loc[c].tunnel)
           r == create_tunnel_config(fs[t.subdomain], t.password, o)
       IN  /\ fs' = [fs EXCEPT ![t.subdomain] = r.fs]
           /\ ngCall' = Some([ op |-> "create", fs |-> fs[t.subdomain],
                                pw |-> t.password, o |-> o, out |-> r ])
           /\ IF r.ok
              THEN /\ pc' = [pc EXCEPT ![c] = "rt_attach"]
                   /\ UNCHANGED outbox
              ELSE /\ outbox' = send_error(c, "Nginx configuration failed: " \o r.err)
                   /\ pc' = [pc EXCEPT ![c] = AfterBootstrapError]
    /\ UNCHANGED << tmVars, loc, result, ncalls, clients, dbVars, devMode, frame, sessLock >>

\* "Clean up tunnel": let _ = tunnel_manager.remove_tunnel(subdomain)
RtUndoRegistry(c) ==
    /\ pc[c] = "rt_undo_registry"
    /\ remove_tunnel(Unwrap(loc[c].sub))
    /\ pc' = [pc EXCEPT ![c] = "rt_undo_db"]
    /\ UNCHANGED << next_port, next_id, loc, result, ncalls, srvVars >>

\* let _ = db::delete_tunnel_record(subdomain); return
RtUndoDb(c, ok) ==
    /\ pc[c] = "rt_undo_db"
    /\ dbTunnels' = IF ok THEN DbDeleteTunnel(Unwrap(loc[c].sub)) ELSE dbTunnels
    /\ pc' = [pc EXCEPT ![c] = "idle"]
    /\ loc' = [loc EXCEPT ![c] = NoLoc]
    /\ UNCHANGED << tmVars, result, ncalls, clients, outbox, dbUsers, dbKeys,
                    authKeys, fs, devMode, frame, ngCall, sessLock >>

\* "Add tunnel to client's tunnel list", then "Send tunnel info to client"
RtAttach(c) ==
    /\ pc[c] = "rt_attach"
    /\ clients' = IF c \in DOMAIN clients
                  THEN [clients EXCEPT ![c].tunnels =
                          Append(@, Unwrap(loc[c].tunnel))]
                  ELSE clients
    /\ outbox' = SendTo(c, Frame("tunnel_assigned", "", loc[c].tunnel))
    /\ pc' = [pc EXCEPT ![c] = "idle"]
    /\ loc' = [loc EXCEPT ![c] = NoLoc]
    /\ UNCHANGED << tmVars, result, ncalls, dbVars, fs, devMode, frame, ngCall, sessLock >>

\* ssh_keys::add_ssh_key_to_authorized_keys (the release build): the key
\* is appended unless a line of the file equals it
add_ssh_key_to_authorized_keys(lines, key) ==
    IF \E i \in 1..Len(lines) : Trim(lines[i]) = Trim(key)
    THEN lines
    ELSE Append(lines, Trim(key))

\* db::store_ssh_public_key: UPDATE users SET ssh_public_key WHERE id
DbStoreKey(user, key) ==
    IF user \in dbUsers THEN MapInsert(dbKeys, user, key) ELSE dbKeys

\* a handler that writes the key file before the store
RecvRegisterSshKeyFileFirst(c, key, dbok, fileok) ==
    /\ Receives(c, InFrame("register_ssh_key", key))
    /\ IF SessionUser(c) = None
       THEN /\ outbox' = send_error(c, "Not authenticated")
            /\ UNCHANGED << dbKeys, authKeys >>
       ELSE IF key = None
       THEN /\ outbox' = send_error(c, "Missing ssh_public_key")
            /\ UNCHANGED << dbKeys, authKeys >>
       ELSE IF validate_ssh_public_key(Unwrap(key)) # "Ok"
       THEN /\ outbox' = send_error(c, "Invalid SSH key: "
                                        \o validate_ssh_public_key(Unwrap(key)))
            /\ UNCHANGED << dbKeys, authKeys >>
       ELSE IF ~ fileok
       THEN /\ outbox' = send_error(c, "Failed to register SSH key")
            /\ UNCHANGED << dbKeys, authKeys >>
       ELSE IF ~ dbok
       THEN /\ outbox' = send_error(c, "Failed to store SSH key")
            /\ authKeys' = add_ssh_key_to_authorized_keys(authKeys, Unwrap(key))
            /\ UNCHANGED dbKeys
       ELSE /\ outbox' = SendTo(c, Frame("ssh_key_registered", "", None))
            /\ dbKeys' = DbStoreKey(Unwrap(SessionUser(c)), Unwrap(key))
            /\ authKeys' = add_ssh_key_to_authorized_keys(authKeys, Unwrap(key))
    /\ UNCHANGED << tmVars, pc, loc, result, clients, dbUsers, dbTunnels, fs, devMode >>

\* handle_message, "register_ssh_key": key is the ssh_public_key field,
\* dbok and fileok whether the two stores succeed
RecvRegisterSshKey(c, key, dbok, fileok) ==
    /\ Receives(c, InFrame("register_ssh_key", key))
    /\ IF SessionUser(c) = None
       THEN /\ outbox' = send_error(c, "Not authenticated")
            /\ UNCHANGED << dbKeys, authKeys >>
       ELSE IF key = None
       THEN /\ outbox' = send_error(c, "Missing ssh_public_key")
            /\ UNCHANGED << dbKeys, authKeys >>
       ELSE IF validate_ssh_public_key(Unwrap(key)) # "Ok"
       THEN /\ outbox' = send_error(c, "Invalid SSH key: "
                                        \o validate_ssh_public_key(Unwrap(key)))
            /\ UNCHANGED << dbKeys, authKeys >>
       ELSE IF ~ dbok
       THEN /\ outbox' = send_error(c, "Failed to store SSH key")
            /\ UNCHANGED << dbKeys, authKeys >>
       ELSE IF ~ fileok
       THEN /\ outbox' = send_error(c, "Failed to register SSH key")
            /\ dbKeys' = DbStoreKey(Unwrap(SessionUser(c)), Unwrap(key))
            /\ UNCHANGED authKeys
       ELSE /\ outbox' = SendTo(c, Frame("ssh_key_registered", "", None))
            /\ dbKeys' = DbStoreKey(Unwrap(SessionUser(c)), Unwrap(key))
            /\ authKeys' = add_ssh_key_to_authorized_keys(authKeys, Unwrap(key))
    /\ UNCHANGED << tmVars, pc, loc, result, clients, dbUsers, dbTunnels, fs, devMode >>

\* handle_message for a text that is no JSON, for an unknown or missing
\* type, and for a heartbeat
OtherKinds == { "invalid_json", "unknown", "heartbeat" }
RecvOther(c, kind) ==
    /\ Receives(c, InFrame(kind, None))
    /\ outbox' = CASE kind = "invalid_json" -> send_error(c, "Invalid JSON")
                   [] kind = "unknown" -> send_error(c, "Unknown message type")
                   [] kind = "heartbeat" -> SendTo(c, Frame("heartbeat_ack", "", None))
    /\ UNCHANGED << tmVars, pc, loc, result, clients, dbVars, fs, devMode >>

\* the inbound loop ends (close frame, read error, end of stream); the
\* cleanup snapshots the session's tunnels
Disconnect(c) ==
    /\ pc[c] = "idle"
    /\ LET todo == IF c \in DOMAIN clients THEN clients[c].tunnels ELSE << >>
       IN  /\ loc' = [loc EXCEPT ![c].todo = todo]
           /\ pc' = [pc EXCEPT ![c] = IF todo = << >> THEN "cl_remove" ELSE "cl_nginx"]
    /\ UNCHANGED << tmVars, result, ncalls, srvVars >>

\* a cleanup that gives up on the tunnel when remove_tunnel_config fails
ClNginxGivesUp(c, o) ==
    /\ pc[c] = "cl_nginx"
    /\ LET sub == Head(loc[c].todo).subdomain
           r == remove_tunnel_config(fs[sub], o)
       IN  /\ fs' = [fs EXCEPT ![sub] = r.fs]
           /\ ngCall' = Some([ op |-> "remove", fs |-> fs[sub], pw |-> None,
                                o |-> o, out |-> r ])
           /\ pc' = [pc EXCEPT ![c] = IF r.ok THEN "cl_registry" ELSE "cl_remove"]
    /\ UNCHANGED << tmVars, loc, result, ncalls, clients, outbox, dbVars, devMode, frame, sessLock >>

\* cleanup of the first tunnel left: remove_tunnel_config; an error is logged
ClNginx(c, o) ==
    /\ pc[c] = "cl_nginx"
    /\ LET sub == Head(loc[c].todo).subdomain
           r == remove_tunnel_config(fs[sub], o)
       IN  /\ fs' = [fs EXCEPT ![sub] = r.fs]
           /\ ngCall' = Some([ op |-> "remove", fs |-> fs[sub], pw |-> None,
                                o |-> o, out |-> r ])
    /\ pc' = [pc EXCEPT ![c] = "cl_registry"]
    /\ UNCHANGED << tmVars, loc, result, ncalls, clients, outbox, dbVars, devMode, frame, sessLock >>

\* tunnel_manager.remove_tunnel; an error is logged
ClRegistry(c) ==
    /\ pc[c] = "cl_registry"
    /\ remove_tunnel(Head(loc[c].todo).subdomain)
    /\ pc' = [pc EXCEPT ![c] = "cl_db"]
    /\ UNCHANGED << next_port, next_id, loc, result, ncalls, srvVars >>

\* db::delete_tunnel_record; an error is logged; then the next tunnel
ClDb(c, ok) ==
    /\ pc[c] = "cl_db"
    /\ dbTunnels' = IF ok THEN DbDeleteTunnel(Head(loc[c].todo).subdomain)
                    ELSE dbTunnels
    /\ loc' = [loc EXCEPT ![c].todo = Tail(@)]
    /\ pc' = [pc EXCEPT ![c] =
                IF Tail(loc[c].todo) = << >> THEN "cl_remove" ELSE "cl_nginx"]
    /\ UNCHANGED << tmVars, result, ncalls, clients, outbox, dbUsers, dbKeys,
                    authKeys, fs, devMode, frame, ngCall, sessLock >>

\* "Remove client from state"
ClRemove(c) ==
    /\ pc[c] = "cl_remove"
    /\ clients' = MapRemove(clients, c)
    /\ pc' = [pc EXCEPT ![c] = "done"]
    /\ loc' = [loc EXCEPT ![c] = NoLoc]
    /\ UNCHANGED << tmVars, result, ncalls, outbox, dbVars, fs, devMode, frame, ngCall, sessLock >>

(***************************************************************************)
(* The server before any connection is accepted.                           *)
(***************************************************************************)
InitState ==
    /\ tunnels = EmptyMap
    /\ ports = EmptyMap
    /\ next_port = PortBase
    /\ next_id = 1
    /\ pc = [c \in Tasks |-> "closed"]
    /\ loc = [c \in Tasks |-> NoLoc]
    /\ result = [c \in Tasks |-> NoResult]
    /\ ncalls = [c \in Tasks |-> 0]
    /\ clients = EmptyMap
    /\ outbox = [c \in Tasks |-> << >>]
    /\ dbUsers = {}
    /\ dbTunnels = {}
    /\ dbKeys = EmptyMap
    /\ authKeys = << >>
    /\ fs = [s \in RandomPool |-> NoFiles]
    /\ frame = [c \in Tasks |-> NoFrame]
    /\ sessLock = NoGuards

InitSrv ==
    /\ InitState
    /\ ngCall = None

\* the steps of request_tunnel after the frame is read, and of the
\* disconnect cleanup, with the outcomes of the external calls drawn from
\* the given sets
TunnelSteps(c, dboks, boots, tears) ==
    \/ CtAllocPort(c)
    \/ CtInsTunnel(c)
    \/ CtInsPort(c)
    \/ \E ok \in dboks : RtDb(c, ok)
    \/ \E o \in boots : RtNginx(c, o)
    \/ RtUndoRegistry(c)
    \/ \E ok \in dboks : RtUndoDb(c, ok)
    \/ RtAttach(c)
    \/ Disconnect(c)
    \/ \E o \in tears : ClNginx(c, o)
    \/ ClRegistry(c)
    \/ \E ok \in dboks : ClDb(c, ok)
    \/ ClRemove(c)

\* outcomes in which every command that runs either works or is seen to fail
LoudBootOutcomes == { o \in BootOutcomes : o.silent = {} }

Init ==
    /\ InitSrv
    /\ devMode = FALSE

(***************************************************************************)
(* Spec: two connections that authenticate, request tunnels and            *)
(* disconnect, with the failures of persistence and provisioning.          *)
(***************************************************************************)
Next ==
    \E c \in Tasks :
        \/ Connect(c)
        \/ /\ ncalls[c] < FramesEach
           /\ \E dbok \in BOOLEAN : RecvAuth(c, Some(GoodToken(UserOf(c))), dbok)
        \/ /\ ncalls[c] < FramesEach
           /\ \E pw \in PasswordOpts, d \in RandDraws : RecvRequestTunnel(c, pw, d)
        \/ TunnelSteps(c, BOOLEAN, LoudBootOutcomes, TearOutcomes)

Spec == Init /\ [][Next]_vars

(***************************************************************************)
(* SpecOne: one connection and a store that works, with every outcome of   *)
(* every provisioning step.                                                *)
(***************************************************************************)
NextOne ==
    \/ Connect(1)
    \/ /\ ncalls[1] < MaxFrames
       /\ RecvAuth(1, Some(GoodToken(UserOf(1))), TRUE)
    \/ /\ ncalls[1] < MaxFrames
       /\ \E pw \in PasswordOpts, d \in RandDraws : RecvRequestTunnel(1, pw, d)
    \/ TunnelSteps(1, {TRUE}, BootOutcomes, TearOutcomes)

SpecOne == Init /\ [][NextOne]_vars

(***************************************************************************)
(* SpecProto: one connection that sends frames of every kind, valid or     *)
(* not, with DEV_MODE set or unset in the environment.                     *)
(***************************************************************************)
InitProto ==
    /\ InitSrv
    /\ devMode \in BOOLEAN

TokenInputs == { None } \cup { Some(t) : t \in Tokens }
KeyFieldInputs == { None } \cup { Some(k) : k \in KeyInputs }

NextProto ==
    \/ Connect(1)
    \/ /\ ncalls[1] < ProtoFrames
       /\ \E tok \in TokenInputs, dbok \in BOOLEAN : RecvAuth(1, tok, dbok)
    \/ /\ ncalls[1] < ProtoFrames
       /\ \E pw \in PasswordOpts, d \in RandDraws : RecvRequestTunnel(1, pw, d)
    \/ /\ ncalls[1] < ProtoFrames
       /\ \E key \in KeyFieldInputs, dbok \in BOOLEAN, fileok \in BOOLEAN :
              RecvRegisterSshKey(1, key, dbok, fileok)
    \/ /\ ncalls[1] < ProtoFrames
       /\ \E kind \in OtherKinds : RecvOther(1, kind)
    \/ TunnelSteps(1, BOOLEAN, LoudBootOutcomes, TearOutcomes)

SpecProto == InitProto /\ [][NextProto]_vars

\* SpecWait: SpecProto with the scheduling the code has.  The steps a
\* handler or the cleanup takes by itself return, and so do the calls of
\* the store (taken to answer); create_tunnel_config and
\* remove_tunnel_config wait in Command::output() and wait() for processes
\* that nothing bounds, so nothing makes them return.
ReturningSteps(c) ==
    \/ CtAllocPort(c)
    \/ CtInsTunnel(c)
    \/ CtInsPort(c)
    \/ \E ok \in BOOLEAN : RtDb(c, ok)
    \/ RtUndoRegistry(c)
    \/ \E ok \in BOOLEAN : RtUndoDb(c, ok)
    \/ RtAttach(c)
    \/ ClRegistry(c)
    \/ \E ok \in BOOLEAN : ClDb(c, ok)
    \/ ClRemove(c)

SpecWait == InitProto /\ [][NextProto]_vars /\ WF_vars(ReturningSteps(1))

(***************************************************************************)
(* SpecNginx: one call of create_tunnel_config or remove_tunnel_config on  *)
(* any files a subdomain may have on disk, with every outcome of the       *)
(* commands it runs.                                                       *)
(***************************************************************************)
FsStates == [ enabled : BOOLEAN, config : {"none", "http", "https"},
              html : BOOLEAN, htpasswd : BOOLEAN, cert : BOOLEAN ]

InitNginx ==
    /\ InitState
    /\ devMode = FALSE
    /\ ngCall \in [ op : {"input"}, fs : FsStates, pw : PasswordOpts ]

NgCreate(o) ==
    /\ ngCall.op = "input"
    /\ ngCall' = [ op |-> "create", fs |-> ngCall.fs, pw |-> ngCall.pw,
                   o |-> o, out |-> create_tunnel_config(ngCall.fs, ngCall.pw, o) ]
    /\ UNCHANGED << tmVars, pc, loc, result, ncalls, clients, outbox, dbVars, fs,
                    devMode, frame, sessLock >>

NgRemove(o) ==
    /\ ngCall.op = "input"
    /\ ngCall' = [ op |-> "remove", fs |-> ngCall.fs, pw |-> ngCall.pw,
                   o |-> o, out |-> remove_tunnel_config(ngCall.fs, o) ]
    /\ UNCHANGED << tmVars, pc, loc, result, ncalls, clients, outbox, dbVars, fs,
                    devMode, frame, sessLock >>

NextNginx ==
    \/ \E o \in BootOutcomes : NgCreate(o)
    \/ \E o \in TearOutcomes : NgRemove(o)

SpecNginx == InitNginx /\ [][NextNginx]_vars

(***************************************************************************)
(* SpecClean: one connection whose disconnect cleanup meets no failure:    *)
(* every remove_tunnel_config and delete_tunnel_record of the cleanup      *)
(* succeeds; the request itself may fail at the store or at the proxy.     *)
(***************************************************************************)
CleanTear == { o \in TearOutcomes : o.fail = "none" /\ ~ o.certFail }

NextClean ==
    \/ Connect(1)
    \/ /\ ncalls[1] < MaxFrames
       /\ RecvAuth(1, Some(GoodToken(UserOf(1))), TRUE)
    \/ /\ ncalls[1] < MaxFrames
       /\ \E pw \in PasswordOpts, d \in RandDraws : RecvRequestTunnel(1, pw, d)
    \/ CtAllocPort(1)
    \/ CtInsTunnel(1)
    \/ CtInsPort(1)
    \/ \E ok \in BOOLEAN : RtDb(1, ok)
    \/ \E o \in LoudBootOutcomes : RtNginx(1, o)
    \/ RtUndoRegistry(1)
    \/ RtUndoDb(1, TRUE)
    \/ RtAttach(1)
    \/ Disconnect(1)
    \/ \E o \in CleanTear : ClNginx(1, o)
    \/ ClRegistry(1)
    \/ ClDb(1, TRUE)
    \/ ClRemove(1)

SpecClean == Init /\ [][NextClean]_vars

\* generate_random_subdomain on its own: the two choose() calls and the
\* gen_range draw are the inputs, the numbers taken from both ends of the
\* range gen_range draws from
EdgeNums == { num \in GenRange : num <= RandNumLow + 1 \/ num >= RandNumHigh - 2 }

InitGen ==
    /\ InitState
    /\ devMode = FALSE
    /\ ngCall \in [ op : {"draw"}, a : 1..Len(Adjectives), n : 1..Len(Nouns),
                    num : EdgeNums ]

Generate ==
    /\ ngCall.op = "draw"
    /\ ngCall' = [ op |-> "generated", a |-> ngCall.a, n |-> ngCall.n,
                   num |-> ngCall.num,
                   sub |-> generate_random_subdomain(ngCall.a, ngCall.n, ngCall.num) ]
    /\ UNCHANGED << tmVars, pc, loc, result, ncalls, clients, outbox, dbVars, fs,
                    devMode, frame, sessLock >>

SpecGen == InitGen /\ [][Generate]_vars

\* the same subdomain bootstrapped a second time, on the files the first
\* bootstrap left
NgCreateAgain(o) ==
    /\ ngCall.op = "create"
    /\ ngCall' = [ op |-> "again", fs |-> ngCall.out.fs, pw |-> ngCall.pw,
                   o |-> o, out |-> create_tunnel_config(ngCall.out.fs, ngCall.pw, o),
                   first |-> ngCall ]
    /\ UNCHANGED << tmVars, pc, loc, result, ncalls, clients, outbox, dbVars, fs,
                    devMode, frame, sessLock >>

NextTwice ==
    \/ \E o \in BootOutcomes : NgCreate(o)
    \/ \E o \in BootOutcomes : NgCreateAgain(o)

SpecTwice == InitNginx /\ [][NextTwice]_vars

(***************************************************************************)
(* SpecLock: the session table's lock.  state.clients is a tokio RwLock,   *)
(* which is fair: requests are served first-in first-out, so a read        *)
(* requested while a write is queued waits behind that write.  Two         *)
(* connections connect, send request_tunnel or register_ssh_key without    *)
(* having authenticated, and disconnect; each acquisition of the lock is   *)
(* a request and, once it is granted, the section under the guard.         *)
(***************************************************************************)
Readers(L) == { c \in Tasks : L.readers[c] > 0 }
\* whether a guard of this mode can be given out now
Grantable(L, mode) ==
    IF mode = "w" THEN L.writer = 0 /\ Readers(L) = {} ELSE L.writer = 0
Grant(L, c, mode) ==
    IF mode = "w" THEN [L EXCEPT !.writer = c]
    ELSE [L EXCEPT !.readers[c] = @ + 1]
\* read().await / write().await: granted at once when nobody waits and the
\* guard is available, queued otherwise
Acquire(L, c, mode) ==
    IF L.queue = << >> /\ Grantable(L, mode)
    THEN Grant(L, c, mode)
    ELSE [L EXCEPT !.queue = Append(@, << c, mode >>)]
\* a release hands the lock to the waiters at the head of the queue
RECURSIVE Wake(_)
Wake(L) ==
    IF L.queue # << >> /\ Grantable(L, Head(L.queue)[2])
    THEN Wake(Grant([L EXCEPT !.queue = Tail(@)], Head(L.queue)[1], Head(L.queue)[2]))
    ELSE L
ReleaseRead(L, c) == Wake([L EXCEPT !.readers[c] = @ - 1])
ReleaseWrite(L) == Wake([L EXCEPT !.writer = 0])
Waits(L, c) == \E i \in 1..Len(L.queue) : L.queue[i][1] = c

\* handle_connection: state.clients.write().await is called
LkConnect(c) ==
    /\ pc[c] = "closed"
    /\ sessLock' = Acquire(sessLock, c, "w")
    /\ pc' = [pc EXCEPT ![c] = "conn_w"]
    /\ UNCHANGED << tmVars, loc, result, ncalls, clients, outbox, dbVars, fs,
                    devMode, frame, ngCall >>

\* under the write guard: clients.insert(..); the guard is dropped
LkInsert(c) ==
    /\ pc[c] = "conn_w"
    /\ ~ Waits(sessLock, c)
    /\ clients' = MapInsert(clients, c, [ user_id |-> None, tunnels |-> << >> ])
    /\ sessLock' = ReleaseWrite(sessLock)
    /\ pc' = [pc EXCEPT ![c] = "idle"]
    /\ UNCHANGED << tmVars, loc, result, ncalls, outbox, dbVars, fs, devMode,
                    frame, ngCall >>

GuardedKinds == { "request_tunnel", "register_ssh_key" }

\* a request_tunnel or register_ssh_key frame is read: "Get user_id from
\* client" calls state.clients.read().await
LkRecv(c, kind) ==
    /\ pc[c] = "idle"
    /\ ncalls' = [ncalls EXCEPT ![c] = @ + 1]
    /\ frame' = [frame EXCEPT ![c] = InFrame(kind, None)]
    /\ sessLock' = Acquire(sessLock, c, "r")
    /\ pc' = [pc EXCEPT ![c] = "guard_r"]
    /\ UNCHANGED << tmVars, loc, result, clients, outbox, dbVars, fs, devMode,
                    ngCall >>

\* under the read guard user_id is None: send_error is called, and calls
\* state.clients.read().await while the first guard is still held
LkNotAuthenticated(c) ==
    /\ pc[c] = "guard_r"
    /\ ~ Waits(sessLock, c)
    /\ clients[c].user_id = None
    /\ sessLock' = Acquire(sessLock, c, "r")
    /\ pc' = [pc EXCEPT ![c] = "err_r"]
    /\ UNCHANGED << tmVars, loc, result, ncalls, clients, outbox, dbVars, fs,
                    devMode, frame, ngCall >>

\* send_error under its guard: the frame is queued; its guard and then, on
\* the handler's return, the first guard are dropped
LkSendError(c) ==
    /\ pc[c] = "err_r"
    /\ ~ Waits(sessLock, c)
    /\ outbox' = send_error(c, "Not authenticated")
    /\ sessLock' = ReleaseRead(ReleaseRead(sessLock, c), c)
    /\ pc' = [pc EXCEPT ![c] = "idle"]
    /\ UNCHANGED << tmVars, loc, result, ncalls, clients, dbVars, fs, devMode,
                    frame, ngCall >>

\* the inbound loop ends: "Get client's tunnels before removing" calls
\* state.clients.read().await
LkDisconnect(c) ==
    /\ pc[c] = "idle"
    /\ sessLock' = Acquire(sessLock, c, "r")
    /\ pc' = [pc EXCEPT ![c] = "snap_r"]
    /\ UNCHANGED << tmVars, loc, result, ncalls, clients, outbox, dbVars, fs,
                    devMode, frame, ngCall >>

\* the snapshot under the read guard (no tunnel: the session never
\* authenticated); then "Remove client from state" calls write().await
LkSnapshot(c) ==
    /\ pc[c] = "snap_r"
    /\ ~ Waits(sessLock, c)
    /\ clients[c].tunnels = << >>
    /\ sessLock' = Acquire(ReleaseRead(sessLock, c), c, "w")
    /\ pc' = [pc EXCEPT ![c] = "rm_w"]
    /\ UNCHANGED << tmVars, loc, result, ncalls, clients, outbox, dbVars, fs,
                    devMode, frame, ngCall >>

\* under the write guard: clients.remove(&client_id)
LkRemove(c) ==
    /\ pc[c] = "rm_w"
    /\ ~ Waits(sessLock, c)
    /\ clients' = MapRemove(clients, c)
    /\ sessLock' = ReleaseWrite(sessLock)
    /\ pc' = [pc EXCEPT ![c] = "done"]
    /\ UNCHANGED << tmVars, loc, result, ncalls, outbox, dbVars, fs, devMode,
                    frame, ngCall >>

\* the steps a connection task takes by itself once it is scheduled
LockSteps(c) ==
    \/ LkInsert(c)
    \/ LkNotAuthenticated(c)
    \/ LkSendError(c)
    \/ LkSnapshot(c)
    \/ LkRemove(c)

NextLock ==
    \E c \in Tasks :
        \/ LkConnect(c)
        \/ /\ ncalls[c] < LockFrames
           /\ \E kind \in GuardedKinds : LkRecv(c, kind)
        \/ LkDisconnect(c)
        \/ LockSteps(c)

\* the runtime schedules every task that can run
SpecLock ==
    /\ Init
    /\ [][NextLock]_vars
    /\ \A c \in Tasks : WF_vars(LockSteps(c))

(***************************************************************************)
(* Properties                                                              *)
(***************************************************************************)
\* the tunnels a live session holds: those attached to it when
\* tunnel_assigned was sent
HeldTunnels(c) == { clients[c].tunnels[i] : i \in 1..Len(clients[c].tunnels) }
AllHeld == UNION { HeldTunnels(c) : c \in DOMAIN clients }

\* C1: in every reachable state the tunnels held by live sessions have
\* pairwise distinct subdomains, also when the random generator draws the
\* same subdomain for two requests.
C1_DistinctSubdomains ==
    \A t1 \in AllHeld, t2 \in AllHeld :
        t1.id # t2.id => t1.subdomain # t2.subdomain

\* every tunnel create_tunnel has built and that was not removed: in the
\* registry, in the hands of a call in progress, or just returned
BuiltTunnels ==
    { tunnels[s] : s \in DOMAIN tunnels }
    \cup { Unwrap(loc[c].tunnel) : c \in { x \in Tasks : IsSome(loc[x].tunnel) } }
    \cup { Unwrap(result[c].tunnel) : c \in { x \in Tasks : IsSome(result[x].tunnel) } }

\* C2: under any interleaving of create_tunnel calls and removals, two
\* different tunnels never have the same port: no two allocations read the
\* same value of next_port.
C2_DistinctPorts ==
    \A t1 \in BuiltTunnels, t2 \in BuiltTunnels :
        t1.id # t2.id => t1.port # t2.port

\* two allocations in progress at once, after a first tunnel was created
C2_Witness ==
    /\ pc[1] = "ct_ins_tunnel"
    /\ pc[2] = "ct_ins_tunnel"
    /\ DOMAIN tunnels # {}
    /\ Unwrap(loc[1].tunnel).port # Unwrap(loc[2].tunnel).port

\* C3: of two concurrent create_custom_tunnel calls for the same valid
\* subdomain (each the only call its task has made, so that no removal lies
\* between them) at most one returns Ok.
C3_AtMostOneSucceeds ==
    ~ ( /\ ncalls[1] = 1 /\ ncalls[2] = 1
        /\ result[1].kind = "Ok" /\ result[2].kind = "Ok"
        /\ IsSome(result[1].tunnel) /\ IsSome(result[2].tunnel)
        /\ Unwrap(result[1].tunnel).is_custom
        /\ Unwrap(result[2].tunnel).is_custom
        /\ Unwrap(result[1].tunnel).subdomain = Unwrap(result[2].tunnel).subdomain )

\* the reply of the bootstrap-failure branch
\* the error frames request_tunnel sends when create_tunnel_config failed
NginxFailed ==
    { ErrorFrame("Nginx configuration failed: " \o e) :
        e \in { IoError, TestFailed, ReloadFailed, CertFailed, HtpasswdFailed } }
LastFrame(q) == q[Len(q)]
\* the step on which request_tunnel returns from its bootstrap-failure branch
ReturnsFromUndo(c) == pc[c] = "rt_undo_db" /\ pc'[c] = "idle"

C5_NoLingeringEndpoint ==
    [][ \A c \in Tasks : ReturnsFromUndo(c) =>
          LET sub == Unwrap(loc[c].sub)
          IN  sub \in DOMAIN tunnels' \/ fs'[sub] = NoFiles ]_vars

\* the tunnels a connection was assigned, read off its tunnel_assigned frames
AssignedTunnels(c) ==
    { Unwrap(outbox[c][i].body) :
        i \in { j \in 1..Len(outbox[c]) : outbox[c][j].type = "tunnel_assigned" } }

\* C6: when the cleanup of a disconnected session has finished, every
\* tunnel the session owned is absent from the registry and from the
\* persisted records and its proxy configuration (symlink and config file)
\* is removed, whatever step failed for any of them.
C6_CleanupComplete ==
    \A c \in Tasks : pc[c] = "done" =>
        \A t \in AssignedTunnels(c) :
            /\ t.subdomain \notin DOMAIN tunnels
            /\ \A r \in dbTunnels : r.subdomain # t.subdomain
            /\ ~ fs[t.subdomain].enabled
            /\ fs[t.subdomain].config = "none"

Commands(tr) == { tr[i] : i \in 1..Len(tr) }

\* C7: remove_tunnel_config attempts every step: it removes each file that
\* is there, deletes the certificate and reloads the proxy, whether or not
\* an earlier removal failed.
C7_EveryStepAttempted ==
    ngCall.op = "remove" =>
        LET f == ngCall.fs
            done == Commands(ngCall.out.trace)
        IN  /\ EnabledExists(f) => "rm_enabled" \in done
            /\ f.config # "none" => "rm_config" \in done
            /\ f.html => "rm_html" \in done
            /\ f.htpasswd => "rm_htpasswd" \in done
            /\ "certbot delete" \in done
            /\ "nginx -t" \in done

NotAuthenticated == ErrorFrame("Not authenticated")
\* the step on which connection c reads a frame and handles it
Handles(c) == ncalls'[c] = ncalls[c] + 1

\* C8 (no side effect), for a handler that is not kept waiting for the
\* session table: a request_tunnel or register_ssh_key frame read on a
\* session whose user_id is unset adds exactly the error frame "Not authenticated" to the
\* session's queue and changes nothing else: no tunnel is allocated, the
\* port counter, the registry, the persisted state, the key file, the proxy
\* files and the session are as before, and the handler has returned.
C8_NotAuthenticated ==
    [][ \A c \in Tasks :
          ( /\ Handles(c)
            /\ frame'[c].type \in {"request_tunnel", "register_ssh_key"}
            /\ c \in DOMAIN clients
            /\ clients[c].user_id = None )
          => /\ outbox'[c] = Append(outbox[c], NotAuthenticated)
             /\ UNCHANGED << tunnels, ports, next_port, next_id, dbUsers,
                             dbTunnels, dbKeys, authKeys, fs, clients, pc, loc >> ]_vars

\* an unauthenticated session was refused twice, the second time for a
\* register_ssh_key frame
C8_Witness ==
    /\ 1 \in DOMAIN clients
    /\ clients[1].user_id = None
    /\ frame[1].type = "register_ssh_key"
    /\ outbox[1] = << NotAuthenticated, NotAuthenticated >>

\* what verify_supabase_token is to accept: a well-formed token with a
\* valid signature, unexpired, with the expected audience and a UUID subject
FullyValid(tok) ==
    /\ tok.wellformed /\ tok.sig /\ tok.fresh /\ tok.aud
    /\ tok.sub \in Users

\* C9: a session's user_id is set, and auth_success is sent, only on an
\* auth frame whose token has a valid signature, is unexpired, has the
\* expected audience and a UUID subject, whatever DEV_MODE is at run time.
C9_OnlyVerifiedTokens ==
    [][ \A c \in Tasks :
          ( /\ c \in DOMAIN clients /\ c \in DOMAIN clients'
            /\ \/ clients'[c].user_id # clients[c].user_id
               \/ /\ Len(outbox'[c]) = Len(outbox[c]) + 1
                  /\ LastFrame(outbox'[c]).type = "auth_success" )
          => /\ frame'[c].type = "auth"
             /\ IsSome(frame'[c].field)
             /\ FullyValid(Unwrap(frame'[c].field)) ]_vars

\* C10: once a session's user_id is set, no later frame changes it.
C10_UserIdImmutable ==
    [][ \A c \in Tasks :
          ( /\ c \in DOMAIN clients /\ c \in DOMAIN clients'
            /\ IsSome(clients[c].user_id) )
          => clients'[c].user_id = clients[c].user_id ]_vars

\* C8 (reply): a request_tunnel or register_ssh_key frame read on a session
\* whose user_id is unset is answered: the handler gets to queue the error
\* frame "Not authenticated" and returns.
C8_Answered ==
    \A c \in Tasks :
        (pc[c] = "guard_r") ~>
            (pc[c] = "idle" /\ outbox[c] # << >>
                /\ LastFrame(outbox[c]) = NotAuthenticated)

\* C11: when the cleanup of a session that was assigned a tunnel has
\* finished, every tunnel held by another live session still resolves:
\* get_tunnel on its subdomain returns that tunnel.
C11_OthersStayResolvable ==
    \A c1 \in Tasks, c2 \in Tasks :
        ( /\ c1 # c2
          /\ pc[c1] = "done"
          /\ AssignedTunnels(c1) # {}
          /\ c2 \in DOMAIN clients
          /\ pc[c2] = "idle" )
        => \A t \in HeldTunnels(c2) : get_tunnel(t.subdomain) = Some(t)

\* no request_tunnel handler and no disconnect cleanup is under way
Quiescent == \A c \in Tasks : pc[c] \in {"closed", "idle", "done"}

\* C12: whenever no request_tunnel and no cleanup is in progress, a
\* subdomain is in the registry if and only if its proxy configuration and
\* its certificate exist.
C12_RegistryMatchesProxy ==
    Quiescent =>
        \A s \in RandomPool :
            s \in DOMAIN tunnels <=> (fs[s].config # "none" /\ fs[s].cert)

\* C13: on a fresh TunnelManager the k-th tunnel created (k from 0; ids
\* number the tunnels in the order they are built) has port 10000 + k,
\* random or custom, whatever calls failed in between.
C13_SequentialPorts ==
    \A t \in BuiltTunnels : t.port = PortBase + (t.id - 1)

\* a custom and a random tunnel were created one after the other
C13_Witness ==
    \E t1 \in BuiltTunnels, t2 \in BuiltTunnels :
        /\ t1.is_custom /\ t1.port = PortBase
        /\ ~ t2.is_custom /\ t2.port = PortBase + 1

\* the syntax the documentation of create_custom_tunnel states
WellFormed(s) ==
    /\ Len(s) \in MinSubdomainLen..MaxSubdomainLen
    /\ { s[i] : i \in 1..Len(s) } \subseteq (LowerChars \cup DigitChars \cup { "-" })
    /\ Head(s) # "-"
    /\ s[Len(s)] # "-"

\* C14: create_custom_tunnel rejects a subdomain with "Invalid subdomain
\* format" exactly when it is not 3 to 63 characters of lowercase ASCII
\* letters, digits and hyphens with no hyphen first or last
C14_AcceptsExactlyWellFormed ==
    \A c \in Tasks :
        ncalls[c] > 0 =>
            ( result[c].kind = "Invalid subdomain format" <=> ~ WellFormed(ngCall.sub) )

C14_Witness ==
    /\ Len(ngCall.sub) = MaxSubdomainLen
    /\ \E i \in 1..Len(ngCall.sub) : ngCall.sub[i] = "-"
    /\ result[1].kind = "Ok"
    /\ IsSome(result[1].tunnel)
    /\ Unwrap(result[1].tunnel).subdomain = ngCall.sub

\* C15: a create_custom_tunnel call that finds its subdomain in the registry
\* fails with "Subdomain already in use" and leaves the registered tunnel
\* as it was
C15_TakenIsRefused ==
    [][ \A c \in Tasks :
          ( ncalls'[c] = ncalls[c] + 1 /\ ngCall.sub \in DOMAIN tunnels )
          => /\ result'[c].kind = "Subdomain already in use"
             /\ ngCall.sub \in DOMAIN tunnels'
             /\ tunnels'[ngCall.sub] = tunnels[ngCall.sub] ]_vars

C15_Witness ==
    /\ result[2].kind = "Subdomain already in use"
    /\ ncalls[2] = 1
    /\ get_tunnel(ngCall.sub) # None
    /\ Unwrap(get_tunnel(ngCall.sub)).user_id = UserOf(1)
    /\ Unwrap(get_tunnel(ngCall.sub)).password = CustomPassword(1)

\* C16: a create_custom_tunnel call that fails leaves the subdomain map, the
\* port map and the next-port counter unchanged
C16_FailureMutatesNothing ==
    [][ \A c \in Tasks :
          ( /\ ncalls'[c] = ncalls[c] + 1
            /\ result'[c].kind \in { "Invalid subdomain format",
                                     "Subdomain already in use" } )
          => UNCHANGED << tunnels, ports, next_port >> ]_vars

C16_Witness ==
    /\ result[1].kind = "Invalid subdomain format"
    /\ result[2].kind = "Subdomain already in use"
    /\ tunnels # EmptyMap
    /\ next_port > PortBase

\* a step in which task c calls remove_tunnel and gets its result
RemoveReturns(c) ==
    /\ ncalls'[c] = ncalls[c] + 1
    /\ pc'[c] = "api"
    /\ result'[c].kind \notin { "Invalid subdomain format", "Subdomain already in use" }

\* C17: remove_tunnel of a registered subdomain succeeds and takes the tunnel
\* out of the subdomain map and its port out of the port map, so get_tunnel
\* returns none afterwards; remove_tunnel of a subdomain that is not
\* registered fails with "Tunnel not found" and changes nothing
C17_RemoveTunnel ==
    [][ \A c \in Tasks :
          RemoveReturns(c) =>
              IF ngCall.sub \in DOMAIN tunnels
              THEN /\ result'[c].kind = "Ok"
                   /\ ngCall.sub \notin DOMAIN tunnels'
                   /\ tunnels[ngCall.sub].port \notin DOMAIN ports'
                   /\ \A s \in DOMAIN tunnels \ { ngCall.sub } :
                          s \in DOMAIN tunnels' /\ tunnels'[s] = tunnels[s]
              ELSE /\ result'[c].kind = "Tunnel not found"
                   /\ UNCHANGED << tunnels, ports, next_port >> ]_vars

\* a removal has succeeded and a second one has failed, with the registry empty
C17_Witness ==
    /\ result[1].kind = "Ok"
    /\ result[1].tunnel = None
    /\ result[2].kind = "Tunnel not found"
    /\ ncalls[1] = 2
    /\ next_port = PortBase + 1
    /\ get_tunnel(ngCall.sub) = None
    /\ ports = EmptyMap

\* C18: when create_tunnel_record fails, request_tunnel queues the error
\* frame "Database error" and returns with no file of the proxy touched; the
\* handler gets to create_tunnel_config only with its record stored
C18_DbFailureAborts ==
    [][ \A c \in Tasks :
          /\ ( pc[c] = "rt_db" /\ pc'[c] # "rt_db" /\ pc'[c] # "rt_nginx" )
             => /\ pc'[c] = "idle"
                /\ outbox'[c] = Append(outbox[c], ErrorFrame("Database error"))
                /\ fs' = fs
                /\ dbTunnels' = dbTunnels
          /\ ( pc[c] # "rt_nginx" /\ pc'[c] = "rt_nginx" )
             => /\ pc[c] = "rt_db"
                /\ Unwrap(loc'[c].tunnel) \in dbTunnels' ]_vars

C18_Witness ==
    /\ pc[1] = "idle"
    /\ outbox[1] # << >>
    /\ LastFrame(outbox[1]) = ErrorFrame("Database error")
    /\ tunnels # EmptyMap
    /\ \A s \in RandomPool : fs[s] = NoFiles

\* C19: every rejected frame is answered by exactly one error frame and the
\* session stays: on a session that never authenticates every
\* request_tunnel and register_ssh_key frame is rejected, so once the n-th
\* frame is read the handler returns with n error frames queued and the
\* session still in the table.
C19_OneErrorPerRejection ==
    \A c \in Tasks : \A n \in 1..LockFrames :
        (pc[c] = "guard_r" /\ ncalls[c] = n) ~>
            ( /\ pc[c] = "idle"
              /\ c \in DOMAIN clients
              /\ Len(outbox[c]) = n
              /\ \A i \in 1..n : outbox[c][i].type = "error" )

\* the step on which request_tunnel's call of create_tunnel_config returns
BootstrapReturns(c) == pc[c] = "rt_nginx" /\ pc'[c] # "rt_nginx"

\* C20: in a bootstrap every "systemctl reload" comes right after a
\* "nginx -t"; when a validation fails, "nginx -t" is the last command that
\* ran, create_tunnel_config returns the validation error, and that error
\* is the text of the error frame request_tunnel queues
C20_ValidateThenReload ==
    [][ \A c \in Tasks :
          BootstrapReturns(c) =>
              LET call == Unwrap(ngCall')
                  tr == call.out.trace
              IN  /\ \A i \in 1..Len(tr) :
                         tr[i] = "systemctl reload" => (i > 1 /\ tr[i - 1] = "nginx -t")
                  /\ ( call.o.mode = "validate" /\ call.o.fail \in { "reload1", "reload2" } )
                     => /\ ~ call.out.ok
                        /\ call.out.err = TestFailed
                        /\ tr[Len(tr)] = "nginx -t"
                        /\ outbox'[c] = Append(outbox[c],
                               ErrorFrame("Nginx configuration failed: " \o TestFailed)) ]_vars

\* the second validation of a bootstrap failed after the first reload ran
C20_Witness ==
    /\ IsSome(ngCall)
    /\ Unwrap(ngCall).op = "create"
    /\ Unwrap(ngCall).o.fail = "reload2"
    /\ Unwrap(ngCall).out.err = TestFailed
    /\ "systemctl reload" \in Commands(Unwrap(ngCall).out.trace)
    /\ outbox[1] # << >>
    /\ LastFrame(outbox[1]) = ErrorFrame("Nginx configuration failed: " \o TestFailed)

\* the steps of a bootstrap that run a command whose exit status says
\* whether the file or link was written
ExitStatusSteps == { "write_http", "enable", "write_https" }

\* C21: create_tunnel_config aborts at the first failing step: when a step's
\* command fails, be it by an error of the invocation or by an unsuccessful
\* exit status, the call returns an error and no later command runs.
C21_AbortsAtFirstFailure ==
    ngCall.op = "create" =>
        LET o == ngCall.o
            out == ngCall.out
        IN  /\ (o.silent \cap ExitStatusSteps # {}) => ~ out.ok
            /\ ~ out.ok => out.err # ""

\* the step on which connection c takes its next frame off the socket
ReadsFrame(c) == ncalls'[c] = ncalls[c] + 1

\* C22: a connection's frames are handled one at a time and in order: when
\* a frame is read the handlers of all earlier frames have returned and
\* each has queued its one reply, and a request_tunnel or register_ssh_key
\* read after an auth_success is not answered "Not authenticated"
C22_OneFrameAtATime ==
    [][ \A c \in Tasks :
          ReadsFrame(c) =>
              /\ pc[c] = "idle"
              /\ Len(outbox[c]) = ncalls[c]
              /\ ( /\ \E i \in 1..Len(outbox[c]) : outbox[c][i].type = "auth_success"
                    /\ frame'[c].type \in GuardedKinds )
                 => ( outbox'[c] = outbox[c] \/ LastFrame(outbox'[c]) # NotAuthenticated ) ]_vars

\* a request_tunnel read after auth_success has been answered tunnel_assigned
C22_Witness ==
    /\ pc[1] = "idle"
    /\ ncalls[1] = 2
    /\ Len(outbox[1]) = 2
    /\ outbox[1][1].type = "auth_success"
    /\ outbox[1][2].type = "tunnel_assigned"

\* a capacity the peer of SpecOne can exceed with the frames it sends
QueueCapacity == MaxFrames - 1

\* C23: the outbound queue of a session whose peer reads nothing never holds
\* more than a fixed capacity of frames (here: one less than the frames the
\* peer sends).
C23_BoundedQueue ==
    \A c \in Tasks : Len(outbox[c]) <= QueueCapacity

\* C24: a request_tunnel whose proxy or certificate process does not return
\* still terminates: the handler comes back from create_tunnel_config and
\* returns, so that the connection can read its next frame.
C24_RequestTerminates ==
    \A c \in Tasks : (pc[c] = "rt_nginx") ~> (pc[c] = "idle")

\* C25: a guard on the session table is held only across the map access it
\* was taken for: a task that holds one neither holds a second one nor
\* waits for the lock, as it would when it goes on to other work (a call
\* that sends, locks or runs a command) before the guard is dropped.
C25_GuardOnlyAcrossMapAccess ==
    \A c \in Tasks :
        /\ sessLock.readers[c] <= 1
        /\ Waits(sessLock, c) => (sessLock.readers[c] = 0 /\ sessLock.writer # c)

\* the step on which the cleanup's call of remove_tunnel_config returns
TeardownReturns(c) == pc[c] = "cl_nginx" /\ pc'[c] # "cl_nginx"

C27_NoOrphanPort ==
    \A p \in DOMAIN ports :
        \E s \in DOMAIN tunnels : tunnels[s].port = p /\ tunnels[s].id = ports[p]

\* C28: the counter never falls and every port handed out is at least
\* 10000 and handed out once, also when the counter reaches the largest
\* u16.
C28_PortsNeverRepeat ==
    /\ next_port >= PortBase
    /\ \A t \in BuiltTunnels : t.port >= PortBase
    /\ \A t1 \in BuiltTunnels, t2 \in BuiltTunnels :
           t1.id # t2.id => t1.port # t2.port

\* the step on which connection c reads an auth frame and handles it
HandlesAuth(c) == ReadsFrame(c) /\ frame'[c].type = "auth"

\* C29: an auth frame either sets user_id and queues auth_success, and then
\* the token was there, the verification accepted it and the user is
\* stored; or it leaves the session table and the stored users as they were
\* and queues exactly one error frame.
C29_AuthAllOrNothing ==
    [][ \A c \in Tasks :
          HandlesAuth(c) =>
              LET tok == frame'[c].field
                  v == VerifyToken(Unwrap(tok), devMode)
              IN  \/ /\ tok # None
                     /\ v.ok
                     /\ v.user \in dbUsers'
                     /\ clients'[c].user_id = Some(v.user)
                     /\ outbox'[c] = Append(outbox[c],
                                            Frame("auth_success", "", Some(v.user)))
                  \/ /\ clients' = clients
                     /\ dbUsers' = dbUsers
                     /\ Len(outbox'[c]) = Len(outbox[c]) + 1
                     /\ LastFrame(outbox'[c]).type = "error"
                     /\ outbox[c] = SubSeq(outbox'[c], 1, Len(outbox[c])) ]_vars

\* an auth that failed at the store, then an auth that succeeded
C29_Witness ==
    /\ Len(outbox[1]) = 2
    /\ outbox[1][1] = ErrorFrame("Database error")
    /\ outbox[1][2].type = "auth_success"
    /\ 1 \in DOMAIN clients
    /\ IsSome(clients[1].user_id)

\* C30: a connection whose inbound loop has ended is always eventually
\* removed from the session table: its cleanup gets the write guard,
\* removes the session and ends.
C30_SessionRemoved ==
    \A c \in Tasks : (pc[c] = "snap_r") ~> (pc[c] = "done" /\ c \notin DOMAIN clients)

\* the commands of a complete bootstrap, in the order the documentation
\* gives: the certificate is asked for when none is on disk, the page is
\* written when its template is there, the credentials file when the tunnel
\* has a password
BootOrder(call) ==
    << "write_http", "ln -sf", "nginx -t", "systemctl reload" >>
      \o (IF call.fs.cert THEN << >> ELSE << "certbot certonly" >>)
      \o << "write_https" >>
      \o (IF "html" \in call.o.silent THEN << >> ELSE << "write html" >>)
      \o (IF call.pw = None THEN << >> ELSE << "htpasswd" >>)
      \o << "nginx -t", "systemctl reload" >>

IsPrefix(a, b) == Len(a) <= Len(b) /\ a = SubSeq(b, 1, Len(a))

\* C31: the commands a bootstrap runs are a prefix of the fixed order, the
\* whole of it when the bootstrap succeeds, and one that stops at the
\* failing command otherwise: certbot runs only after the first reload
\* went through, the final reload only after the certificate step.
C31_FixedOrder ==
    ngCall.op = "create" =>
        /\ IsPrefix(ngCall.out.trace, BootOrder(ngCall))
        /\ ngCall.out.ok => ngCall.out.trace = BootOrder(ngCall)
        /\ ngCall.o.fail \in { "write_http", "enable", "reload1" }
              => "certbot certonly" \notin Commands(ngCall.out.trace)

\* a complete bootstrap with certificate and credentials file
C31_Witness ==
    /\ ngCall.op = "create"
    /\ ngCall.out.ok
    /\ ngCall.pw # None
    /\ ~ ngCall.fs.cert
    /\ ngCall.o.silent = {}
    /\ Len(ngCall.out.trace) = 10

\* how often a bootstrap ran certbot
Issuances(tr) == Cardinality({ i \in 1..Len(tr) : tr[i] = "certbot certonly" })

\* C32: a bootstrap that finds the certificate on disk does not run certbot
\* and its certificate step does not fail; one that reaches the step
\* without a certificate runs certbot exactly once; of two bootstraps of
\* one subdomain the second runs certbot only when the first left no
\* certificate.
C32_IssuedOnlyWhenAbsent ==
    /\ ngCall.op \in { "create", "again" } =>
          /\ ngCall.fs.cert =>
                /\ Issuances(ngCall.out.trace) = 0
                /\ ngCall.out.err # CertFailed
                /\ ngCall.out.fs.cert
          /\ (~ ngCall.fs.cert /\ "write_https" \in Commands(ngCall.out.trace))
                => Issuances(ngCall.out.trace) = 1 /\ ngCall.out.fs.cert
          /\ Issuances(ngCall.out.trace) <= 1
    /\ ngCall.op = "again" =>
          /\ ngCall.first.out.fs.cert => Issuances(ngCall.out.trace) = 0
          /\ (Issuances(ngCall.first.out.trace) = 1 /\ ngCall.first.out.ok)
                => Issuances(ngCall.out.trace) = 0

\* two complete bootstraps of one subdomain, the first of which obtained
\* the certificate
C32_Witness ==
    /\ ngCall.op = "again"
    /\ ngCall.first.out.ok
    /\ ngCall.out.ok
    /\ Issuances(ngCall.first.out.trace) = 1
    /\ ngCall.o.fail = "cert"

\* str::split('-')
RECURSIVE SplitHyphen(_)
SplitHyphen(s) ==
    IF \A i \in 1..Len(s) : s[i] # Hyphen THEN << s >>
    ELSE LET k == CHOOSE i \in 1..Len(s) :
                      s[i] = Hyphen /\ \A j \in 1..(i - 1) : s[j] # Hyphen
         IN  << SubSeq(s, 1, k - 1) >> \o SplitHyphen(SubSeq(s, k + 1, Len(s)))

\* adjective-noun-NNNN with the words from the two vocabularies
AdjNounNumber(s) ==
    LET parts == SplitHyphen(s)
    IN  /\ Len(parts) = 3
        /\ \E a \in 1..Len(Adjectives) : parts[1] = Adjectives[a]
        /\ \E n \in 1..Len(Nouns) : parts[2] = Nouns[n]
        /\ Len(parts[3]) = 4
        /\ \A i \in 1..4 : parts[3][i] \in DigitChars
        /\ parts[3][1] # "0"

\* C33: a generated subdomain has the form adjective-noun-NNNN and passes
\* is_valid_subdomain, and every number from 1000 to 9999 inclusive is one
\* the generator can draw.
C33_CoversWholeRange ==
    ngCall.op = "generated" =>
        /\ AdjNounNumber(ngCall.sub)
        /\ is_valid_subdomain(ngCall.sub)
        /\ \A num \in RandNumLow..RandNumHigh : num \in GenRange

\* the part of C33 that holds: form and validity of every generated name
GeneratedWellFormed ==
    ngCall.op = "generated" =>
        AdjNounNumber(ngCall.sub) /\ is_valid_subdomain(ngCall.sub)

\* a register_ssh_key frame with a key field, read on an authenticated
\* session
HandlesKey(c) ==
    /\ ReadsFrame(c)
    /\ frame'[c].type = "register_ssh_key"
    /\ frame'[c].field # None
    /\ c \in DOMAIN clients
    /\ SessionUser(c) # None

\* the four reasons for which a key fails validation, the length taken
\* in bytes (KeyRejected) and in characters (KeyRejectedChars)
KeyMalformed(k) ==
    \/ k = << >>
    \/ \A pre \in ValidKeyPrefixes : ~ StartsWith(k, pre)
    \/ WordCount(k) < 2
KeyRejected(key) ==
    KeyMalformed(Trim(key)) \/ StrLen(Trim(key)) < MinKeyLen
KeyRejectedChars(key) ==
    KeyMalformed(Trim(key)) \/ Len(Trim(key)) < MinKeyLen

KeyLines(lines) == { lines[i] : i \in 1..Len(lines) }

\* what register_ssh_key does with a key, given which keys count as
\* failing validation
KeyHandledInOrder(c, rejected) ==
    LET key  == Unwrap(frame'[c].field)
        user == Unwrap(SessionUser(c))
        sent == LastFrame(outbox'[c])
    IN  /\ Len(outbox'[c]) = Len(outbox[c]) + 1
        /\ outbox[c] = SubSeq(outbox'[c], 1, Len(outbox[c]))
        /\ sent.type \in { "ssh_key_registered", "error" }
        /\ sent.type = "ssh_key_registered" =>
              /\ ~ rejected
              /\ user \in DOMAIN dbKeys' /\ dbKeys'[user] = key
              /\ Trim(key) \in KeyLines(authKeys')
        /\ rejected =>
              /\ sent.type = "error"
              /\ dbKeys' = dbKeys
              /\ authKeys' = authKeys
        /\ authKeys' # authKeys =>
              user \in DOMAIN dbKeys' /\ dbKeys'[user] = key
        /\ dbKeys' # dbKeys => ~ rejected

C35_NoTaskBlocksForever ==
    \A c \in Tasks : Waits(sessLock, c) ~> ~ Waits(sessLock, c)

\* no TunnelManager operation is between two of its lock sections
ManagerIdle == \A c \in Tasks : pc[c] = "api"

\* C36: whenever no TunnelManager operation is in progress, the port map
\* and the subdomain map correspond one to one: the port map sends p to i
\* exactly when the subdomain map holds a tunnel with port p and id i.
C36_MapsCorrespond ==
    ManagerIdle =>
        /\ \A s \in DOMAIN tunnels :
              /\ tunnels[s].port \in DOMAIN ports
              /\ ports[tunnels[s].port] = tunnels[s].id
        /\ Cardinality(DOMAIN ports) = Cardinality(DOMAIN tunnels)

\* C37: every tunnel in the owned-tunnel list of a live session whose
\* cleanup has not begun is in the registry under its subdomain, with the
\* same id and the same port.
C37_OwnedAreRegistered ==
    \A c \in DOMAIN clients :
        pc[c] = "idle" =>
            \A t \in HeldTunnels(c) :
                /\ t.subdomain \in DOMAIN tunnels
                /\ tunnels[t.subdomain].id = t.id
                /\ tunnels[t.subdomain].port = t.port

\* a request_tunnel of connection c is between its allocation and its return
RequestInProgress(c) ==
    pc[c] \in { "ct_port", "ct_ins_tunnel", "ct_ins_port", "rt_db", "rt_nginx",
                "rt_undo_registry", "rt_undo_db", "rt_attach" }

\* C38: every registry entry is the tunnel of a request_tunnel still in
\* progress or a tunnel attached to a live session: a request that ended
\* in an error reply has left no entry for its subdomain.
C38_NoEntryAfterError ==
    \A s \in DOMAIN tunnels :
        \/ \E c \in Tasks : RequestInProgress(c) /\ loc[c].sub = Some(s)
        \/ \E c \in DOMAIN clients : tunnels[s] \in HeldTunnels(c)

\* the cleanup of connection c has taken its snapshot
AfterSnapshot(c) == pc[c] \in { "cl_nginx", "cl_registry", "cl_db", "cl_remove", "done" }

\* C39: once the cleanup of a session has taken its snapshot no tunnel is
\* attached to that session any more, and once the session has been
\* removed by a cleanup all of whose steps succeeded, no tunnel that the
\* session allocated is left in the registry or in the store.
C39_NothingLeftBehind ==
    /\ [][ \A c \in Tasks :
              (AfterSnapshot(c) /\ c \in DOMAIN clients /\ c \in DOMAIN clients')
                  => clients'[c].tunnels = clients[c].tunnels ]_vars
    /\ [] ( \A c \in Tasks :
              (pc[c] = "done" /\ c \notin DOMAIN clients) =>
                  /\ \A s \in DOMAIN tunnels : tunnels[s].user_id # UserOf(c)
                  /\ \A r \in dbTunnels : r.user_id # UserOf(c) )

=============================================================================
